---- MODULE Spec2Model ----
(***************************************************************************)
(* Model of the German fiscal-receipt parser of the QR scanner component   *)
(* (src/src/components/QRScanner.tsx, parseReceiptString).                 *)
(*                                                                         *)
(* A JavaScript string is a sequence of one-character strings.  A value    *)
(* that may be `undefined` (an array element read past the end, a          *)
(* destructured element) is a record [t, s]; a JavaScript number is a      *)
(* record [k, m, x] standing for NaN, +/-Infinity or the decimal m * 10^x. *)
(* The decimal is kept exact: the literals of the inputs have few digits,  *)
(* for which two literals denote the same double exactly when they denote  *)
(* the same decimal.  The blank " " stands for the white space characters. *)
(*                                                                         *)
(* The second part models the QRScanner component around the parser: its   *)
(* useState variables and the handlers that set them.  A handler runs in   *)
(* segments, from one await or callback to the next; the setters of one    *)
(* segment are rendered in one batch, so a segment is one action.  A scan  *)
(* keeps the API key of the render in which its upload was made.           *)
(***************************************************************************)
EXTENDS Integers, Sequences, FiniteSets, TLC

VARIABLES
    receiptString,   \* the argument of the call (the decoded QR payload)
    pc,              \* "ready": about to call the parser, "done": it returned
    result,          \* what the call produced: Null, a GermanReceiptData or Thrown
    consoleErrors,   \* number of console.error calls made by the parser
    \* the state of the QRScanner component (useState)
    qrResult,
    openAIResult,
    germanReceipt,
    error,
    isScanning,
    isAnalyzingWithAI,
    uploadedImage,
    debugInfo,
    openAIApiKey,
    \* the calls of handleFileUpload that passed the file checks, in order:
    \* where each one stands, the API key its closure holds, and how often it
    \* has called the parser
    scans,
    clearedSince     \* history: clearResults ran and no upload followed

parserVars == <<receiptString, pc, result, consoleErrors>>

scannerVars ==
    <<qrResult, openAIResult, germanReceipt, error, isScanning, isAnalyzingWithAI,
      uploadedImage, debugInfo, openAIApiKey, scans, clearedSince>>

vars == <<parserVars, scannerVars>>

----------------------------------------------------------------------------
(* JavaScript values *)

Undefined == [t |-> "undefined", s |-> <<>>]
Str(s) == [t |-> "string", s |-> s]

\* !v for a value that is a string or undefined
Falsy(v) == v.t = "undefined" \/ v.s = <<>>

\* arr[i], JavaScript indexing (0-based, undefined past the end)
At(arr, i) == IF i + 1 \in DOMAIN arr THEN Str(arr[i + 1]) ELSE Undefined

NaN == [k |-> "NaN", m |-> 0, x |-> 0]
Infinity(sign) == [k |-> "Infinity", m |-> sign, x |-> 0]

\* the number m * 10^x in normal form: m carries no trailing zero
RECURSIVE Num(_, _)
Num(m, x) ==
    IF m = 0 THEN [k |-> "number", m |-> 0, x |-> 0]
    ELSE IF m % 10 = 0 THEN Num(m \div 10, x + 1)
    ELSE [k |-> "number", m |-> m, x |-> x]

\* arr[i] of an array of numbers
AtNum(arr, i) == IF i + 1 \in DOMAIN arr THEN arr[i + 1] ELSE [k |-> "undefined", m |-> 0, x |-> 0]

\* a === b on numbers: NaN is not equal to anything, itself included
StrictEquals(a, b) == a.k /= "NaN" /\ b.k /= "NaN" /\ a = b

\* Number.isInteger(v)
IsInteger(v) == v.k = "number" /\ v.x >= 0

----------------------------------------------------------------------------
(* String.prototype.split with a one-character separator *)

RECURSIVE SplitFrom(_, _, _, _)
SplitFrom(s, sep, i, cur) ==
    IF i > Len(s) THEN <<cur>>
    ELSE IF s[i] = sep THEN <<cur>> \o SplitFrom(s, sep, i + 1, <<>>)
    ELSE SplitFrom(s, sep, i + 1, Append(cur, s[i]))

Split(s, sep) == SplitFrom(s, sep, 1, <<>>)

\* Array.prototype.join, used to write the inputs
RECURSIVE Join(_, _)
Join(arr, sep) ==
    IF Len(arr) = 0 THEN <<>>
    ELSE IF Len(arr) = 1 THEN arr[1]
    ELSE arr[1] \o <<sep>> \o Join(Tail(arr), sep)

----------------------------------------------------------------------------
(* Number(string) and parseInt(string, 10) *)

Digits == <<"0", "1", "2", "3", "4", "5", "6", "7", "8", "9">>
HexLower == Digits \o <<"a", "b", "c", "d", "e", "f">>
HexUpper == Digits \o <<"A", "B", "C", "D", "E", "F">>
WhiteSpace == {" "}

Range(f) == {f[i] : i \in DOMAIN f}
IsDigit(c) == c \in Range(Digits)

\* value of the digit character c in the given radix, -1 when it is no such digit
DigitValue(c, radix) ==
    LET hits == {i \in 1..radix : HexLower[i] = c \/ HexUpper[i] = c}
    IN  IF hits = {} THEN -1 ELSE (CHOOSE i \in hits : TRUE) - 1

AllDigits(s, radix) == \A i \in DOMAIN s : DigitValue(s[i], radix) >= 0

RECURSIVE RadixValue(_, _)
RadixValue(s, radix) ==
    IF Len(s) = 0 THEN 0
    ELSE RadixValue(SubSeq(s, 1, Len(s) - 1), radix) * radix + DigitValue(s[Len(s)], radix)

RECURSIVE TrimStart(_)
TrimStart(s) == IF Len(s) > 0 /\ s[1] \in WhiteSpace THEN TrimStart(Tail(s)) ELSE s

RECURSIVE TrimEnd(_)
TrimEnd(s) ==
    IF Len(s) > 0 /\ s[Len(s)] \in WhiteSpace THEN TrimEnd(SubSeq(s, 1, Len(s) - 1)) ELSE s

\* position of the first character of s that is in the set cs, 0 when there is none
FirstIndex(s, cs) ==
    LET hits == {i \in DOMAIN s : s[i] \in cs}
    IN  IF hits = {} THEN 0 ELSE CHOOSE i \in hits : \A j \in hits : i <= j

IsSign(c) == c \in {"+", "-"}
SignOf(s) == IF Len(s) > 0 /\ s[1] = "-" THEN -1 ELSE 1
Unsigned(s) == IF Len(s) > 0 /\ IsSign(s[1]) THEN Tail(s) ELSE s

InfinityLiteral == <<"I", "n", "f", "i", "n", "i", "t", "y">>

\* StrUnsignedDecimalLiteral without the Infinity case:
\*   digits [. [digits]] [exponent]  |  . digits [exponent]
DecimalLiteral(u) ==
    LET e == FirstIndex(u, {"e", "E"})
        mant == IF e = 0 THEN u ELSE SubSeq(u, 1, e - 1)
        expo == IF e = 0 THEN <<>> ELSE SubSeq(u, e + 1, Len(u))
        dot == FirstIndex(mant, {"."})
        int == IF dot = 0 THEN mant ELSE SubSeq(mant, 1, dot - 1)
        frac == IF dot = 0 THEN <<>> ELSE SubSeq(mant, dot + 1, Len(mant))
        expDigits == Unsigned(expo)
        ok == /\ AllDigits(int, 10) /\ AllDigits(frac, 10)
              /\ Len(int) + Len(frac) > 0
              /\ (e /= 0 => Len(expDigits) > 0 /\ AllDigits(expDigits, 10))
    IN  [ok |-> ok,
         m |-> IF ok THEN RadixValue(int \o frac, 10) ELSE 0,
         x |-> IF ok THEN SignOf(expo) * RadixValue(expDigits, 10) - Len(frac) ELSE 0]

\* the radix of a 0x / 0o / 0b literal, 0 when s has no such prefix
PrefixRadix(s) ==
    IF Len(s) < 2 \/ s[1] /= "0" THEN 0
    ELSE IF s[2] \in {"x", "X"} THEN 16
    ELSE IF s[2] \in {"o", "O"} THEN 8
    ELSE IF s[2] \in {"b", "B"} THEN 2
    ELSE 0

\* Number(s): StringToNumber of the ECMAScript specification
Number(s) ==
    LET t == TrimEnd(TrimStart(s))
        u == Unsigned(t)
        radix == PrefixRadix(t)
        d == DecimalLiteral(u)
    IN  IF t = <<>> THEN Num(0, 0)
        ELSE IF radix /= 0 THEN
            IF Len(t) > 2 /\ AllDigits(SubSeq(t, 3, Len(t)), radix)
            THEN Num(RadixValue(SubSeq(t, 3, Len(t)), radix), 0)
            ELSE NaN
        ELSE IF u = InfinityLiteral THEN Infinity(SignOf(t))
        ELSE IF d.ok THEN Num(SignOf(t) * d.m, d.x)
        ELSE NaN

\* the longest prefix of s made of decimal digits
RECURSIVE DigitPrefix(_)
DigitPrefix(s) ==
    IF Len(s) > 0 /\ IsDigit(s[1]) THEN <<s[1]>> \o DigitPrefix(Tail(s)) ELSE <<>>

\* parseInt(v, 10); an undefined argument is converted to the string "undefined"
ParseInt10(v) ==
    LET t == TrimStart(v.s)
        p == DigitPrefix(Unsigned(t))
    IN  IF v.t = "undefined" \/ p = <<>> THEN NaN
        ELSE Num(SignOf(t) * RadixValue(p, 10), 0)

\* array.map(Number)
MapNumber(arr) == [i \in DOMAIN arr |-> Number(arr[i])]

----------------------------------------------------------------------------
(* parseReceiptString *)

\* "German receipts should have at least 12 parts"
MinParts == 12
\* the VAT block carries at least total, vat0, vat7, vat19, other
MinVatComponents == 5

Null == [type |-> "null"]
\* the completion of a call that let an exception escape
Thrown == [type |-> "exception"]

Return(v) == [completion |-> "return", value |-> v, consoleErrors |-> 0]
Throw == [completion |-> "throw", value |-> Thrown, consoleErrors |-> 0]

\* the result of the catch block: console.error, then return null
Caught == [completion |-> "return", value |-> Null, consoleErrors |-> 1]

\* the length check admitting one part too few
TooFewParts_OffByOne(parts) == Len(parts) < MinParts - 1

\* the length check with the comparison inverted
TooFewParts_Inverted(parts) == Len(parts) > MinParts

\* if (parts.length < 12)
TooFewParts(parts) == Len(parts) < MinParts

\* field 3 split on the separator of the payment block
SplitCompound_Colon(field) == Split(field, ":")

\* parts[3].split("^")
SplitCompound(field) == Split(field, "^")

\* if (!vatString || !paymentString)
MissingSubPart(vatString, paymentString) == Falsy(vatString) \/ Falsy(paymentString)

\* the components with not-a-number replaced by zero: map(x => Number(x) || 0)
VatComponentsOf_OrZero(vatString) ==
    LET c == MapNumber(Split(vatString, "_"))
    IN  [i \in DOMAIN c |-> IF c[i].k = "NaN" THEN Num(0, 0) ELSE c[i]]

\* vatString.split("_").map(Number)
VatComponentsOf(vatString) == MapNumber(Split(vatString, "_"))

\* the component check admitting one component too few
TooFewVatComponents_OffByOne(vatComponents) == Len(vatComponents) < MinVatComponents - 1

\* if (vatComponents.length < 5)
TooFewVatComponents(vatComponents) == Len(vatComponents) < MinVatComponents

\* the payment tokens read in reverse order: "method:amount"
PaymentMethodOf_Reversed(paymentString) == At(Split(paymentString, ":"), 0)

\* const [_, paymentMethod] = paymentString.split(":")
PaymentMethodOf(paymentString) == At(Split(paymentString, ":"), 1)

\* the total read one component too far
TotalAmountOf_NextComponent(vatComponents) == AtNum(vatComponents, 1)

\* const totalAmount = vatComponents[0]
TotalAmountOf(vatComponents) == AtNum(vatComponents, 0)

\* receiptCounter: parseInt(parts[4], 10)
ReceiptCounterOf(parts) == ParseInt10(At(parts, 4))

\* the statements after the length check, from the destructuring of parts[3]
\* to the returned object literal; parts[3].split throws a TypeError when
\* parts[3] is undefined
ParseParts(parts) ==
    IF At(parts, 3).t = "undefined" THEN Throw
    ELSE
    LET compound == SplitCompound(At(parts, 3).s)
        label == At(compound, 0)
        vatString == At(compound, 1)
        paymentString == At(compound, 2)
    IN  IF MissingSubPart(vatString, paymentString) THEN Return(Null)
        ELSE
        LET vatComponents == VatComponentsOf(vatString.s)
        IN  IF TooFewVatComponents(vatComponents) THEN Return(Null)
            ELSE Return(
                [type |-> "GermanReceiptData",
                 version |-> At(parts, 0),
                 transactionUUID |-> At(parts, 1),
                 documentType |-> At(parts, 2),
                 receipt |->
                    [label |-> label,
                     vatBreakdown |->
                        [total |-> AtNum(vatComponents, 0),
                         vat0 |-> AtNum(vatComponents, 1),
                         vat7 |-> AtNum(vatComponents, 2),
                         vat19 |-> AtNum(vatComponents, 3),
                         other |-> AtNum(vatComponents, 4)],
                     totalAmount |-> TotalAmountOf(vatComponents),
                     paymentMethod |-> PaymentMethodOf(paymentString.s)],
                 receiptCounter |-> ReceiptCounterOf(parts),
                 registerID |-> At(parts, 5),
                 timestampStart |-> At(parts, 6),
                 timestampEnd |-> At(parts, 7),
                 signatureAlgorithm |-> At(parts, 8),
                 timeFormat |-> At(parts, 9),
                 signature |-> At(parts, 10),
                 certificateHash |-> At(parts, 11)])

\* the function without its length check and without try/catch
parseReceiptString_Unprotected(s) == ParseParts(Split(s, ";"))

\* the whole function: the try block (split on ";", length check, the rest)
\* and the catch block that turns any exception into null
parseReceiptString(s) ==
    LET parts == Split(s, ";")
        body == IF TooFewParts(parts) THEN Return(Null) ELSE ParseParts(parts)
    IN  IF body.completion = "throw" THEN Caught ELSE body

----------------------------------------------------------------------------
(* The inputs of the parser *)

\* the inputs are built with up to MaxFields fields separated by ";",
\* a field 3 of up to MaxCaretParts parts separated by "^", a VAT block of up
\* to MaxVatComponents tokens separated by "_" and a payment block of up to
\* MaxPaymentTokens tokens separated by ":"
MaxFields == 13
MaxCaretParts == 4
MaxVatComponents == 6
MaxPaymentTokens == 3
\* the number of fields of the input "with very many fields"
ManyFields == 40

\* tokens tried as a VAT component: decimal literals, the empty token, blanks,
\* words, a literal followed by a letter, exponent, hexadecimal and Infinity
VatTokens ==
    {<<"7">>, <<"2", ".", "5", "0">>, <<"-", "3">>, <<>>, <<" ">>, <<"k">>,
     <<"1", "k">>, <<".">>, <<"1", "e", "2">>, <<"0", "x", "1", "f">>,
     InfinityLiteral}

\* the VAT block of n tokens whose token at position p is t, the others the
\* digit of their position
VatBlock(n, p, t) ==
    Join([i \in 1..n |-> IF i = p THEN t ELSE <<Digits[(i % 10) + 1]>>], "_")

\* the two tokens tried in the inputs that vary the number of fields
FewVatTokens == {<<"7">>, <<"k">>}

VatBlocks(tokens) ==
    {VatBlock(n, p, t) : n \in 1..MaxVatComponents, p \in {1, 2}, t \in tokens}

\* tokens tried as the amount of the payment block
AmountTokens == {<<"7">>, <<>>, <<"E", "C">>}

PaymentMethods == <<<<"c", "a", "r", "d">>, <<"B", "a", "r">>, <<"x">>, <<"y">>>>

\* the payment blocks: the empty block, and amount:method:... with n tokens
PaymentBlocks ==
    {<<>>} \cup
    {Join([i \in 1..n |-> IF i = 1 THEN a ELSE PaymentMethods[((i - 2) % 4) + 1]], ":") :
        n \in 1..MaxPaymentTokens, a \in AmountTokens}

Labels == {<<"L">>, <<>>}

\* fields without a caret that carry the other separators
NoCaretFields ==
    {<<"L", "_", "1", ":", "c">>,
     Join(<<<<"L">>, VatBlock(MinVatComponents, 1, <<"7">>), <<"7">>, <<"c">>>>, ":"),
     Join(<<<<"L">>, VatBlock(MinVatComponents, 1, <<"7">>), <<"7", ":", "c">>>>, "_")}

\* field 3 with n caret-separated parts: label, VAT block, payment block, "z", ...
CompoundFields(tokens) ==
    {Join([i \in 1..n |-> IF i = 1 THEN l ELSE IF i = 2 THEN v ELSE IF i = 3 THEN p
                          ELSE <<"z">>], "^") :
        n \in 1..MaxCaretParts, l \in {<<"L">>}, v \in VatBlocks(tokens),
        p \in PaymentBlocks}
    \cup {l : l \in Labels}
    \cup NoCaretFields

\* values tried as field 4
CounterFields ==
    {<<"4", "2">>, <<>>, <<"a", "b">>, <<"4", ".", "7">>, <<"-", "7">>,
     <<" ", "8">>, <<"7", "x">>, <<"1", "e", "3">>}

\* the other fields are one letter each
FieldNames == <<"v", "u", "d", "w", "k", "r", "s", "e", "g", "t", "i", "c">>

\* the input of n fields whose field 3 is f3 and whose field 4 is f4
Fields(n, f3, f4) ==
    Join([i \in 1..n |->
            IF i = 4 THEN f3
            ELSE IF i = 5 THEN f4
            ELSE <<FieldNames[((i - 1) % 12) + 1]>>], ";")

\* the examples of the specification
EndToEndExample ==
    <<"1", ".", "0", ";", "9", "f", "2", "c", "-", "u", "u", "i", "d", ";",
      "B", "e", "l", "e", "g", ";", "S", "u", "p", "e", "r", "m", "a", "r",
      "k", "t", "^", "1", "2", ".", "5", "0", "_", "0", "_", "0", "_", "2",
      ".", "5", "0", "_", "1", "0", ".", "0", "0", ":", "E", "C", ":", "c",
      "a", "r", "d", ";", "4", "2", ";", "R", "E", "G", "0", "1", ";", "2",
      "0", "2", "3", "-", "0", "1", "-", "0", "1", "T", "1", "0", ":", "0",
      "0", ":", "0", "0", ";", "2", "0", "2", "3", "-", "0", "1", "-", "0",
      "1", "T", "1", "0", ":", "0", "5", ":", "0", "0", ";", "S", "H", "A",
      "2", "5", "6", ";", "U", "T", "C", ";", "a", "b", "c", "S", "I", "G",
      ";", "c", "e", "r", "t", "H", "A", "S", "H", "1", "2", "3">>
\* the same with field 3 written label^VAT^payment
EndToEndExampleTwoCarets ==
    <<"1", ".", "0", ";", "9", "f", "2", "c", "-", "u", "u", "i", "d", ";",
      "B", "e", "l", "e", "g", ";", "S", "u", "p", "e", "r", "m", "a", "r",
      "k", "t", "^", "1", "2", ".", "5", "0", "_", "0", "_", "0", "_", "2",
      ".", "5", "0", "_", "1", "0", ".", "0", "0", "^", "E", "C", ":", "c",
      "a", "r", "d", ";", "4", "2", ";", "R", "E", "G", "0", "1", ";", "2",
      "0", "2", "3", "-", "0", "1", "-", "0", "1", "T", "1", "0", ":", "0",
      "0", ":", "0", "0", ";", "2", "0", "2", "3", "-", "0", "1", "-", "0",
      "1", "T", "1", "0", ":", "0", "5", ":", "0", "0", ";", "S", "H", "A",
      "2", "5", "6", ";", "U", "T", "C", ";", "a", "b", "c", "S", "I", "G",
      ";", "c", "e", "r", "t", "H", "A", "S", "H", "1", "2", "3">>
FourFieldsExample ==
    <<"a", ";", "b", ";", "c", ";", "d">>
NoCaretExample ==
    <<"1", ".", "0", ";", "u", ";", "t", ";", "l", "a", "b", "e", "l", "_",
      "o", "n", "l", "y", "_", "n", "o", "_", "c", "a", "r", "e", "t", ";",
      "4", "2", ";", "R", ";", "s", ";", "e", ";", "a", "l", "g", ";", "f",
      "m", "t", ";", "s", "i", "g", ";", "c", "e", "r", "t">>

Inputs ==
    {Fields(MinParts, f3, <<"4", "2">>) : f3 \in CompoundFields(VatTokens)}
    \cup {Fields(n, f3, <<"4", "2">>) :
        n \in (MinParts - 1)..MaxFields, f3 \in CompoundFields(FewVatTokens)}
    \cup {Fields(n, f3, f4) :
        n \in {MinParts}, f3 \in {<<"L", "^", "1", "_", "2", "_", "3", "_", "4", "_", "5", "^",
                                   "7", ":", "c">>, <<"L">>},
        f4 \in CounterFields}
    \cup {Fields(n, <<"L">>, <<"4", "2">>) : n \in 1..MaxFields}
    \cup {Fields(ManyFields, <<"L">>, <<"4", "2">>)}
    \cup {<<>>, EndToEndExample, EndToEndExampleTwoCarets, FourFieldsExample,
          NoCaretExample}

----------------------------------------------------------------------------
(* The state of the QRScanner component and the statements that set it *)

MsgInvalidFile == "Please select a valid image file"
MsgNoContext == "Could not create canvas context for image processing"
MsgNoQr == "No QR code found in the image. Please try with a clearer image."
MsgImageLoad == "Failed to load the image. Please try with a different image."
MsgProcessing == "An error occurred while processing the image."

MsgAIFailed == <<"AI analysis failed. Check API key and connection.">>
MsgKeyInvalid == <<"Invalid OpenAI API key format. Please check your key.">>
MsgKeyMissing ==
    <<"OpenAI API key not configured. Enter your API key below to enable AI analysis.">>
MsgNoResponse == <<"No response from OpenAI">>
MsgNoClient == <<"OpenAI client not available. Please check API key.">>
ErrorPrefix == <<"E", "r", "r", "o", "r", ":", " ">>

\* validateApiKey: a key is longer than MinKeyLength characters
MinKeyLength == 20
KeyPrefix == <<"s", "k", "-">>

validateApiKey(key) ==
    /\ Len(key) >= Len(KeyPrefix)
    /\ SubSeq(key, 1, Len(KeyPrefix)) = KeyPrefix
    /\ Len(key) > MinKeyLength

\* a string held in a state of type string | null
Text(chars) == [type |-> "string", chars |-> chars]

\* the state set by the useState calls, before any event
InitialState ==
    [qrResult |-> Null, openAIResult |-> Null, germanReceipt |-> Null,
     error |-> "", isScanning |-> FALSE, isAnalyzingWithAI |-> FALSE,
     uploadedImage |-> <<>>, debugInfo |-> <<>>]

\* the component as mounted, the API key read from localStorage
Mounted(key) ==
    /\ qrResult = InitialState.qrResult
    /\ openAIResult = InitialState.openAIResult
    /\ germanReceipt = InitialState.germanReceipt
    /\ error = InitialState.error
    /\ isScanning = InitialState.isScanning
    /\ isAnalyzingWithAI = InitialState.isAnalyzingWithAI
    /\ uploadedImage = InitialState.uploadedImage
    /\ debugInfo = InitialState.debugInfo
    /\ openAIApiKey = key
    /\ scans = <<>>
    /\ clearedSince = FALSE

\* the state a handler starts from
State ==
    [qrResult |-> qrResult, openAIResult |-> openAIResult,
     germanReceipt |-> germanReceipt, error |-> error, isScanning |-> isScanning,
     isAnalyzingWithAI |-> isAnalyzingWithAI, uploadedImage |-> uploadedImage,
     debugInfo |-> debugInfo]

\* the state rendered after the handler's setState calls
Render(s) ==
    \E next \in {s} :
        /\ qrResult' = next.qrResult
        /\ openAIResult' = next.openAIResult
        /\ germanReceipt' = next.germanReceipt
        /\ error' = next.error
        /\ isScanning' = next.isScanning
        /\ isAnalyzingWithAI' = next.isAnalyzingWithAI
        /\ uploadedImage' = next.uploadedImage
        /\ debugInfo' = next.debugInfo

\* disabled={isScanning || isAnalyzingWithAI} of the upload button
UploadDisabled == isScanning \/ isAnalyzingWithAI

\* the setters of a new scan without setGermanReceipt(null)
StartScan_KeepsReceipt(s, id) ==
    [s EXCEPT !.isScanning = TRUE, !.error = "", !.qrResult = Null,
              !.openAIResult = Null,
              !.debugInfo = <<"Starting file processing...">>,
              !.uploadedImage = <<"blob:", id>>]

\* handleFileUpload after the file checks: the six setters and the preview URL
StartScan(s, id) ==
    [s EXCEPT !.isScanning = TRUE, !.error = "", !.qrResult = Null,
              !.openAIResult = Null, !.germanReceipt = Null,
              !.debugInfo = <<"Starting file processing...">>,
              !.uploadedImage = <<"blob:", id>>]

\* the catch block of handleFileUpload
ProcessingFailed(s) == [s EXCEPT !.error = MsgProcessing, !.isScanning = FALSE]

\* image.onerror
ImageFailed(s) == [s EXCEPT !.error = MsgImageLoad, !.isScanning = FALSE]

\* image.onload without a canvas context
ContextMissing(s) ==
    [s EXCEPT !.error = MsgNoContext,
              !.debugInfo = <<"Failed to create canvas context">>,
              !.isScanning = FALSE]

\* the progress messages of image.onload up to the jsQR call
ProgressMessages ==
    <<"Image loaded", "Canvas created", "Image drawn to canvas, extracting pixel data...",
      "Pixel data extracted", "Scanning for QR code...">>

\* if (result) { ... }: the decoded payload is stored, and the receipt that
\* parseReceiptString returned for it, if it returned one
QrFound(s, data, parsedReceipt) ==
    LET found == [s EXCEPT !.debugInfo = <<"QR code found">>,
                           !.qrResult = [type |-> "QRResult", data |-> data]]
    IN  IF parsedReceipt /= Null
        THEN [found EXCEPT !.germanReceipt = parsedReceipt,
                           !.debugInfo = Append(@, " | German receipt detected and parsed!")]
        ELSE [found EXCEPT !.germanReceipt = Null]

\* the else branch without its setError
QrNotFound_Silent(s) == [s EXCEPT !.debugInfo = <<"No QR code found">>]

\* else { ... }: no QR code in the image
QrNotFound(s) == [s EXCEPT !.debugInfo = <<"No QR code found">>, !.error = MsgNoQr]

\* setIsScanning(false) after the decode
ScanFinished(s) == [s EXCEPT !.isScanning = FALSE]

\* if (openAIApiKey && validateApiKey(openAIApiKey)), on the key of the closure
WantsAI(key) == key /= <<>> /\ validateApiKey(key)

\* the request started without setIsAnalyzingWithAI(true)
AIStarted_FlagUnset(s) ==
    [s EXCEPT !.debugInfo = <<"Analyzing image with AI for serial number...">>]

\* setIsAnalyzingWithAI(true) and the first statements of
\* extractSerialNumberWithAI, up to the request
AIStarted(s) ==
    [s EXCEPT !.isAnalyzingWithAI = TRUE,
              !.debugInfo = <<"Analyzing image with AI for serial number...">>]

\* the else branch: no request, a message in openAIResult
AISkipped(s, key) ==
    [s EXCEPT !.openAIResult = Text(IF key /= <<>> THEN MsgKeyInvalid ELSE MsgKeyMissing)]

\* the AI branch entered only when a receipt was parsed
AfterDecode_OnlyWithReceipt(s, key) ==
    IF WantsAI(key) /\ s.germanReceipt /= Null
    THEN AIStarted(ScanFinished(s))
    ELSE AISkipped(ScanFinished(s), key)

\* setIsScanning(false) and the AI branch up to the await of the request, with
\* the key of the closure
AfterDecode(s, key) ==
    IF WantsAI(key) THEN AIStarted(ScanFinished(s)) ELSE AISkipped(ScanFinished(s), key)

\* the catch block returning the message of the error as it is
extractSerialNumberWithAI_BareMessage(key, outcome) ==
    IF key = <<>> THEN MsgNoClient
    ELSE IF outcome.kind = "response" THEN
        IF outcome.content /= <<>> THEN TrimEnd(TrimStart(outcome.content))
        ELSE MsgNoResponse
    ELSE IF outcome.kind = "error" THEN outcome.message
    ELSE <<"Unknown error">>

\* what extractSerialNumberWithAI resolves with, for the outcome of the request
\* made with the key of the closure
extractSerialNumberWithAI(key, outcome) ==
    IF key = <<>> THEN ErrorPrefix \o MsgNoClient
    ELSE IF outcome.kind = "response" THEN
        IF outcome.content /= <<>> THEN TrimEnd(TrimStart(outcome.content))
        ELSE MsgNoResponse
    ELSE IF outcome.kind = "error" THEN ErrorPrefix \o outcome.message
    ELSE ErrorPrefix \o <<"Unknown error">>

\* the continuation dropping the result when the results were cleared meanwhile
AIStored_UnlessCleared(s, aiResult) ==
    IF s.uploadedImage = <<>>
    THEN [s EXCEPT !.isAnalyzingWithAI = FALSE]
    ELSE [s EXCEPT !.openAIResult = Text(aiResult),
                   !.debugInfo = Append(@, " | AI analysis complete"),
                   !.isAnalyzingWithAI = FALSE]

\* the statements after the await: the result is stored, the flag released
AIStored(s, aiResult) ==
    [s EXCEPT !.openAIResult = Text(aiResult),
              !.debugInfo = Append(@, " | AI analysis complete"),
              !.isAnalyzingWithAI = FALSE]

\* clearResults
clearResults(s) ==
    [s EXCEPT !.qrResult = Null, !.openAIResult = Null, !.germanReceipt = Null,
              !.error = "", !.uploadedImage = <<>>, !.debugInfo = <<>>]

----------------------------------------------------------------------------
(* One call of parseReceiptString on an input *)

NotCalled == [type |-> "none"]

Init ==
    /\ receiptString \in Inputs
    /\ pc = "ready"
    /\ result = NotCalled
    /\ consoleErrors = 0
    /\ Mounted(<<>>)

\* const parsedReceipt = parseReceiptString(result.data)
Parse ==
    /\ pc = "ready"
    /\ LET r == parseReceiptString(receiptString)
       IN  /\ result' = r.value
           /\ consoleErrors' = consoleErrors + r.consoleErrors
    /\ pc' = "done"
    /\ UNCHANGED <<receiptString, scannerVars>>

Next == Parse

ParserSpec == Init /\ [][Next]_vars

----------------------------------------------------------------------------
(* The scanner: uploads, their continuations, and the other handlers *)

\* the scans a behaviour may start
MaxScans == 2

\* the characters after the prefix in the API keys tried: one too few, enough
KeyBodyShort == [i \in 1..(MinKeyLength - Len(KeyPrefix)) |-> "x"]
KeyBodyLong == Append(KeyBodyShort, "x")

\* no key; "sk-" and 20 characters in all; "sk-" and 21; 21 with another prefix
Keys ==
    {<<>>, KeyPrefix \o KeyBodyShort, KeyPrefix \o KeyBodyLong,
     <<"p", "k", "-">> \o KeyBodyLong}

\* the payloads jsQR may decode: a receipt, and a text that is no receipt
\* v;u;d;L^1_2_3_4_5^7:c;42;r;s;e;g;t;i;c
ReceiptPayload ==
    <<"v", ";", "u", ";", "d", ";", "L", "^", "1", "_", "2", "_", "3", "_",
      "4", "_", "5", "^", "7", ":", "c", ";", "4", "2", ";", "r", ";", "s",
      ";", "e", ";", "g", ";", "t", ";", "i", ";", "c">>
QrPayloads == {ReceiptPayload, <<"h", "t", "t", "p">>}

\* how the request for the image of scan id may settle: a completion with or
\* without content, a rejection with an Error, a rejection with another value
AIOutcomes(id) ==
    {[kind |-> "response", content |-> <<" ", "S", "N", Digits[id + 1], " ">>, message |-> <<>>],
     [kind |-> "response", content |-> <<>>, message |-> <<>>],
     [kind |-> "error", content |-> <<>>, message |-> <<"Connection error.">>],
     [kind |-> "thrown", content |-> <<>>, message |-> <<>>]}

\* no outcome yet
NoOutcome == [kind |-> "none", content |-> <<>>, message |-> <<>>]

\* a scan that has just passed the file checks, with the key of its closure
NewScan(key) ==
    [at |-> "reading", key |-> key, decoded |-> "pending", parseCalls |-> 0,
     parsed |-> <<>>, ai |-> NoOutcome]

\* the scans with a continuation still to come
InFlight == {id \in DOMAIN scans : scans[id].at \in {"reading", "loading", "ai"}}

ScanInit ==
    /\ receiptString = <<>>
    /\ pc = "component"
    /\ result = NotCalled
    /\ consoleErrors = 0
    /\ \E key \in Keys : Mounted(key)

\* handleFileUpload, no file selected: nothing but a log line
UploadNothing ==
    /\ ~UploadDisabled
    /\ UNCHANGED vars

\* handleFileUpload, a file that is no image
UploadInvalid ==
    /\ ~UploadDisabled
    /\ Render([State EXCEPT !.error = MsgInvalidFile])
    /\ clearedSince' = FALSE
    /\ UNCHANGED <<parserVars, openAIApiKey, scans>>

\* handleFileUpload, an image: up to the await of convertFileToBase64
UploadImage ==
    /\ ~UploadDisabled
    /\ Len(scans) < MaxScans
    /\ Render(StartScan(State, Len(scans) + 1))
    /\ scans' = Append(scans, NewScan(openAIApiKey))
    /\ clearedSince' = FALSE
    /\ UNCHANGED <<parserVars, openAIApiKey>>

\* convertFileToBase64 resolved: the image is created and its source set
FileRead(id) ==
    /\ scans[id].at = "reading"
    /\ scans' = [scans EXCEPT ![id].at = "loading"]
    /\ UNCHANGED <<parserVars, qrResult, openAIResult, germanReceipt, error, isScanning,
                   isAnalyzingWithAI, uploadedImage, debugInfo, openAIApiKey, clearedSince>>

\* convertFileToBase64 rejected: the catch block of handleFileUpload
FileReadFailed(id) ==
    /\ scans[id].at = "reading"
    /\ Render(ProcessingFailed(State))
    /\ scans' = [scans EXCEPT ![id].at = "failed"]
    /\ UNCHANGED <<parserVars, openAIApiKey, clearedSince>>

\* image.onerror
ImageError(id) ==
    /\ scans[id].at = "loading"
    /\ Render(ImageFailed(State))
    /\ scans' = [scans EXCEPT ![id].at = "failed"]
    /\ UNCHANGED <<parserVars, openAIApiKey, clearedSince>>

\* image.onload, canvas.getContext("2d") returned null
ImageLoadNoContext(id) ==
    /\ scans[id].at = "loading"
    /\ Render(ContextMissing(State))
    /\ scans' = [scans EXCEPT ![id].at = "failed"]
    /\ UNCHANGED <<parserVars, openAIApiKey, clearedSince>>

\* image.onload, drawImage, getImageData or jsQR threw: the exception rejects
\* the promise of the async onload, which nothing handles; the progress
\* message set last stays
ImageLoadThrows(id) ==
    /\ scans[id].at = "loading"
    /\ \E k \in {2, 3, 5} : Render([State EXCEPT !.debugInfo = <<ProgressMessages[k]>>])
    /\ scans' = [scans EXCEPT ![id].at = "dead"]
    /\ UNCHANGED <<parserVars, openAIApiKey, clearedSince>>

\* image.onload, jsQR returned a result with this data: the payload is parsed
\* once, then setIsScanning(false) and the AI branch up to the await
ImageLoadQrFound(id, data) ==
    /\ scans[id].at = "loading"
    /\ \E parsedReceipt \in {parseReceiptString(data)} :
           /\ Render(AfterDecode(QrFound(State, data, parsedReceipt.value), scans[id].key))
           /\ consoleErrors' = consoleErrors + parsedReceipt.consoleErrors
    /\ scans' = [scans EXCEPT
           ![id].at = IF WantsAI(scans[id].key) THEN "ai" ELSE "done",
           ![id].decoded = "found",
           ![id].parseCalls = @ + 1,
           ![id].parsed = Append(@, data)]
    /\ UNCHANGED <<receiptString, pc, result, openAIApiKey, clearedSince>>

\* image.onload, jsQR returned null: the else branch, then the same
ImageLoadNoQr(id) ==
    /\ scans[id].at = "loading"
    /\ Render(AfterDecode(QrNotFound(State), scans[id].key))
    /\ scans' = [scans EXCEPT
           ![id].at = IF WantsAI(scans[id].key) THEN "ai" ELSE "done",
           ![id].decoded = "notFound"]
    /\ UNCHANGED <<parserVars, openAIApiKey, clearedSince>>

\* the request of extractSerialNumberWithAI settled with outcome o
AISettled(id, o) ==
    /\ scans[id].at = "ai"
    /\ Render(AIStored(State, extractSerialNumberWithAI(scans[id].key, o)))
    /\ scans' = [scans EXCEPT ![id].at = "done", ![id].ai = o]
    /\ UNCHANGED <<parserVars, openAIApiKey, clearedSince>>

\* "Scan Another", rendered in the cards shown while qrResult or germanReceipt
\* is set
ScanAnother ==
    /\ qrResult /= Null \/ germanReceipt /= Null
    /\ Render(clearResults(State))
    /\ clearedSince' = TRUE
    /\ UNCHANGED <<parserVars, openAIApiKey, scans>>

\* handleApiKeyChange
ApiKeyChange(value) ==
    /\ value /= openAIApiKey
    /\ openAIApiKey' = value
    /\ UNCHANGED <<parserVars, qrResult, openAIResult, germanReceipt, error, isScanning,
                   isAnalyzingWithAI, uploadedImage, debugInfo, scans, clearedSince>>

ScanNext ==
    \/ UploadNothing
    \/ UploadInvalid
    \/ UploadImage
    \/ \E id \in DOMAIN scans : FileRead(id)
    \/ \E id \in DOMAIN scans : FileReadFailed(id)
    \/ \E id \in DOMAIN scans : ImageError(id)
    \/ \E id \in DOMAIN scans : ImageLoadNoContext(id)
    \/ \E id \in DOMAIN scans : ImageLoadThrows(id)
    \/ \E id \in DOMAIN scans : \E data \in QrPayloads : ImageLoadQrFound(id, data)
    \/ \E id \in DOMAIN scans : ImageLoadNoQr(id)
    \/ \E id \in DOMAIN scans : \E o \in AIOutcomes(id) : AISettled(id, o)
    \/ ScanAnother
    \/ \E value \in Keys : ApiKeyChange(value)

Spec == ScanInit /\ [][ScanNext]_vars


----------------------------------------------------------------------------
(* The input of the call, read as the grammar of the format reads it *)

IsRecord(r) == r.type = "GermanReceiptData"

InputParts == Split(receiptString, ";")
HasField3 == Len(InputParts) >= 4
CaretParts == IF HasField3 THEN Split(InputParts[4], "^") ELSE <<>>
\* field 3 has a label, a non-empty VAT sub-part and a non-empty payment sub-part
HasSubParts == Len(CaretParts) >= 3 /\ CaretParts[2] /= <<>> /\ CaretParts[3] /= <<>>
VatTokensOfInput == IF Len(CaretParts) >= 2 THEN Split(CaretParts[2], "_") ELSE <<>>
PaymentTokensOfInput == IF Len(CaretParts) >= 3 THEN Split(CaretParts[3], ":") ELSE <<>>

\* the five fields of a record's vatBreakdown, in the order of the VAT block
Breakdown(r) ==
    <<r.receipt.vatBreakdown.total, r.receipt.vatBreakdown.vat0,
      r.receipt.vatBreakdown.vat7, r.receipt.vatBreakdown.vat19,
      r.receipt.vatBreakdown.other>>

----------------------------------------------------------------------------
(* C1 *)

\* C1: every call of parseReceiptString, on any input string, ends by
\* returning a receipt record or null; no exception reaches the caller.
C1_Totality == pc = "done" => (result = Null \/ IsRecord(result))

\* the empty string has been parsed and the call returned null
C1_Witness == pc = "done" /\ receiptString = <<>> /\ result = Null

----------------------------------------------------------------------------
(* C2 *)

\* the record the end-to-end example expects
IsExpectedEndToEnd(r) ==
    /\ IsRecord(r)
    /\ r.version = Str(<<"1", ".", "0">>)
    /\ r.transactionUUID = Str(<<"9", "f", "2", "c", "-", "u", "u", "i", "d">>)
    /\ r.documentType = Str(<<"B", "e", "l", "e", "g">>)
    /\ r.receipt.label = Str(<<"S", "u", "p", "e", "r", "m", "a", "r", "k", "t">>)
    /\ r.receipt.vatBreakdown =
          [total |-> Num(1250, -2), vat0 |-> Num(0, 0), vat7 |-> Num(0, 0),
           vat19 |-> Num(250, -2), other |-> Num(1000, -2)]
    /\ r.receipt.totalAmount = Num(1250, -2)
    /\ r.receipt.paymentMethod = Str(<<"c", "a", "r", "d">>)
    /\ r.receiptCounter = Num(42, 0)
    /\ r.registerID = Str(<<"R", "E", "G", "0", "1">>)

\* C2 as stated: the example input, whose field 3 has a single caret, parses
\* to the expected record.
C2_Original ==
    (pc = "done" /\ receiptString = EndToEndExample) => IsExpectedEndToEnd(result)

\* C2 amended: the example parses to the expected record when its field 3 is
\* written label^VAT^payment (Supermarkt^12.50_0_0_2.50_10.00^EC:card); with
\* the single caret of the printed example the parse fails.
C2_EndToEnd ==
    /\ (pc = "done" /\ receiptString = EndToEndExampleTwoCarets)
          => IsExpectedEndToEnd(result)
    /\ (pc = "done" /\ receiptString = EndToEndExample) => result = Null

\* the two-caret example has been parsed into a record
C2_Witness ==
    pc = "done" /\ receiptString = EndToEndExampleTwoCarets /\ IsRecord(result)

----------------------------------------------------------------------------
(* C3 *)

\* a required sub-split of field 3 is missing or short
ShortSubSplit ==
    /\ HasField3
    /\ \/ Len(CaretParts) < 3
       \/ Len(VatTokensOfInput) < 5
       \/ Len(PaymentTokensOfInput) /= 2

\* C3: a missing or short sub-split of field 3 (fewer than three caret parts,
\* fewer than five VAT components, a payment sub-part that is not
\* amount:paymentMethod) makes the parse fail, and no returned record has an
\* undefined paymentMethod.
C3_AllOrNothing ==
    pc = "done" =>
        /\ (ShortSubSplit => result = Null)
        /\ (IsRecord(result) => result.receipt.paymentMethod.t = "string")

----------------------------------------------------------------------------
(* C4 *)

\* C4 as stated: on every returned record totalAmount === vatBreakdown.total,
\* not-a-number totals included.
C4_Original ==
    (pc = "done" /\ IsRecord(result)) =>
        StrictEquals(result.receipt.totalAmount, result.receipt.vatBreakdown.total)

\* C4 amended: on every returned record totalAmount and vatBreakdown.total are
\* the same value, the number read from the first VAT token whatever the
\* amount token is; they are === exactly when that value is not NaN.
C4_TotalAmount ==
    (pc = "done" /\ IsRecord(result)) =>
        /\ result.receipt.totalAmount = result.receipt.vatBreakdown.total
        /\ result.receipt.totalAmount = Number(VatTokensOfInput[1])
        /\ StrictEquals(result.receipt.totalAmount, result.receipt.vatBreakdown.total)
              <=> result.receipt.vatBreakdown.total.k /= "NaN"

\* a record whose total is not a number has been returned for an input whose
\* amount token is not a number either
C4_Witness ==
    /\ pc = "done" /\ IsRecord(result)
    /\ result.receipt.totalAmount.k = "NaN"
    /\ PaymentTokensOfInput[1] = <<"E", "C">>

----------------------------------------------------------------------------
(* C5 *)

\* field 3 is label ^ VAT block of at least five components ^ payment block
ValidCompound == HasSubParts /\ Len(VatTokensOfInput) >= 5

\* C5: fewer than 12 fields fail; exactly 12 fields with a valid compound
\* field 3 succeed; fields after index 11 are ignored, so a parsed input with
\* one more field appended gives the same record.
C5_MinimumFields ==
    pc = "done" =>
        /\ (Len(InputParts) < 12 => result = Null)
        /\ (Len(InputParts) = 12 /\ ValidCompound => IsRecord(result))
        /\ (IsRecord(result) =>
              parseReceiptString(receiptString \o <<";", "x">>).value = result)

\* an input of exactly 11 fields with a valid compound field 3 has failed
C5_Witness ==
    pc = "done" /\ Len(InputParts) = 11 /\ ValidCompound /\ result = Null

----------------------------------------------------------------------------
(* C6 *)

\* C6: an input whose field 3 holds no caret fails, whatever its other fields.
C6_NoCaret ==
    (pc = "done" /\ HasField3 /\ "^" \notin Range(InputParts[4])) => result = Null

\* the no-caret example of the specification has failed
C6_Witness == pc = "done" /\ receiptString = NoCaretExample /\ result = Null

----------------------------------------------------------------------------
(* C7 *)

\* C7: with at least 12 fields and a field 3 with label, VAT and payment
\* sub-parts, fewer than five VAT components (exactly four included) fail, and
\* five or more succeed with vatBreakdown built from the first five alone.
C7_VatCount ==
    (pc = "done" /\ Len(InputParts) >= 12 /\ HasSubParts) =>
        LET tokens == VatTokensOfInput
        IN  /\ (Len(tokens) < 5 => result = Null)
            /\ (Len(tokens) >= 5 =>
                  /\ IsRecord(result)
                  /\ Breakdown(result) = [i \in 1..5 |-> Number(tokens[i])])

\* a VAT block of more than five components has been parsed into a record
C7_Witness ==
    /\ pc = "done" /\ IsRecord(result)
    /\ Len(VatTokensOfInput) > 5

----------------------------------------------------------------------------
(* C8 *)

\* the characters that occur in numeric literals: digits, signs, the dot,
\* blanks, and the letters of exponents, radix prefixes, hexadecimal digits
\* and Infinity
LiteralChars ==
    Range(HexLower) \cup Range(HexUpper) \cup Range(InfinityLiteral)
    \cup {"+", "-", ".", "x", "X", "o", "O"} \cup WhiteSpace

\* the token holds a character that no numeric literal holds
HasForeignChar(token) == \E i \in DOMAIN token : token[i] \notin LiteralChars

\* the token is empty or made of blanks
IsBlank(token) == \A i \in DOMAIN token : token[i] \in WhiteSpace

\* the input is valid but for the content of its VAT tokens
OtherwiseValid == Len(InputParts) >= 12 /\ ValidCompound

\* C8 as stated: a VAT token that is not a number, the empty token included,
\* does not fail the parse and gives a NaN field.
C8_Original ==
    (pc = "done" /\ OtherwiseValid) =>
        LET tokens == VatTokensOfInput
        IN  /\ IsRecord(result)
            /\ \A i \in 1..5 :
                  (tokens[i] = <<>> \/ HasForeignChar(tokens[i]))
                      => Breakdown(result)[i].k = "NaN"

\* C8 amended: a VAT token holding a character that no numeric literal holds
\* does not fail the parse and gives a NaN field; an empty or blank token does
\* not fail the parse either, and gives the field 0, not NaN.
C8_MalformedNumeric ==
    (pc = "done" /\ OtherwiseValid) =>
        LET tokens == VatTokensOfInput
        IN  /\ IsRecord(result)
            /\ \A i \in 1..5 :
                  /\ HasForeignChar(tokens[i]) => Breakdown(result)[i].k = "NaN"
                  /\ IsBlank(tokens[i]) => Breakdown(result)[i] = Num(0, 0)

\* a record has been returned whose vat0 is NaN, from a token with a letter
C8_Witness ==
    /\ pc = "done" /\ OtherwiseValid /\ IsRecord(result)
    /\ HasForeignChar(VatTokensOfInput[2])
    /\ result.receipt.vatBreakdown.vat0.k = "NaN"

----------------------------------------------------------------------------
(* C9 *)

\* C9: the receiptCounter of every returned record is an integer.
C9_IntegerCounter ==
    (pc = "done" /\ IsRecord(result)) => IsInteger(result.receiptCounter)

----------------------------------------------------------------------------
(* C10 *)

\* C10: a call of parseReceiptString logs nothing: the console.error of its
\* catch block never runs, for any input string.
C10_NoSideEffects == consoleErrors = 0

\* an input without any semicolon has been parsed and nothing was logged
C10_Witness ==
    /\ pc = "done" /\ consoleErrors = 0
    /\ receiptString /= <<>> /\ Len(InputParts) = 1

----------------------------------------------------------------------------
(* The scans of the component *)

\* the scans whose image has not been decoded yet
BeforeDecode == {id \in DOMAIN scans : scans[id].at \in {"reading", "loading"}}

----------------------------------------------------------------------------
(* C11 *)

\* C11: in every state of the scanner germanReceipt is set only together with
\* qrResult, and is then the receipt parseReceiptString returns for
\* qrResult.data; from the start of a scan until its image is decoded, and
\* after clearResults until the next upload, no receipt and no payload is held.
C11_StoredReceipt ==
    /\ germanReceipt /= Null =>
           /\ qrResult /= Null
           /\ germanReceipt = parseReceiptString(qrResult.data).value
    /\ BeforeDecode /= {} => (germanReceipt = Null /\ qrResult = Null)
    /\ clearedSince => (germanReceipt = Null /\ qrResult = Null)

\* the second scan holds the receipt of its payload, after the first scan
\* had stored one too
C11_Witness ==
    /\ Len(scans) = 2
    /\ scans[1].parsed = <<ReceiptPayload>>
    /\ scans[2].parsed = <<ReceiptPayload>>
    /\ IsRecord(germanReceipt)
    /\ qrResult /= Null

----------------------------------------------------------------------------
(* C12 *)

\* the step in which the AI request of scan id settles
AISettles(id) == scans[id].at = "ai" /\ scans'[id].at = "done"

\* C12: the continuation of the AI request writes what the request resolved
\* with into openAIResult in every state it runs in: nothing is compared with
\* the scan that made the request, so the write also happens after the results
\* were reset by clearResults.
C12_StaleResponseStored ==
    [][\A id \in DOMAIN scans :
          AISettles(id) =>
              openAIResult' = Text(extractSerialNumberWithAI(scans[id].key, scans'[id].ai))]_vars

\* the results were cleared while the request of scan 1 was outstanding, and
\* its response now stands in openAIResult
C12_Witness ==
    /\ clearedSince
    /\ Len(scans) = 1 /\ scans[1].at = "done" /\ scans[1].ai.kind = "response"
    /\ qrResult = Null
    /\ openAIResult = Text(<<"S", "N", "1">>)

----------------------------------------------------------------------------
(* C13 *)

\* C13: from clearResults until the next upload, qrResult, germanReceipt and
\* openAIResult are null and error, uploadedImage and debugInfo are empty.
C13_ClearedStaysCleared ==
    clearedSince =>
        /\ qrResult = Null /\ germanReceipt = Null /\ openAIResult = Null
        /\ error = "" /\ uploadedImage = <<>> /\ debugInfo = <<>>

----------------------------------------------------------------------------
(* C14 *)

\* C14: the step that decodes the image of a scan without finding a QR code
\* calls parseReceiptString not at all, leaves qrResult and germanReceipt null
\* and sets error to the "No QR code found" message; the step that decodes a
\* payload calls the parser once, on that payload; no other step of the scan
\* calls the parser.
C14_DecodePath ==
    [][\A id \in DOMAIN scans :
          LET before == scans[id]
              after == scans'[id]
          IN  /\ (before.decoded = "pending" /\ after.decoded = "notFound") =>
                     /\ after.parseCalls = 0 /\ after.parsed = <<>>
                     /\ consoleErrors' = consoleErrors
                     /\ qrResult' = Null /\ germanReceipt' = Null
                     /\ error' = MsgNoQr
              /\ (before.decoded = "pending" /\ after.decoded = "found") =>
                     /\ after.parseCalls = 1
                     /\ qrResult' /= Null /\ after.parsed = <<qrResult'.data>>
              /\ before.decoded = "pending" => before.parseCalls = 0
              /\ before.decoded /= "pending" =>
                     /\ after.decoded = before.decoded
                     /\ after.parseCalls = before.parseCalls
                     /\ after.parsed = before.parsed]_vars

\* the first scan decoded a payload and parsed it once; the second found no
\* QR code and parsed nothing
C14_Witness ==
    /\ Len(scans) = 2
    /\ scans[1].decoded = "found" /\ scans[1].parseCalls = 1
    /\ scans[2].decoded = "notFound" /\ scans[2].parseCalls = 0
    /\ qrResult = Null /\ germanReceipt = Null /\ error = MsgNoQr

----------------------------------------------------------------------------
(* C15 *)

\* a key of valid format, as the claim words it
ValidFormat(key) ==
    /\ Len(key) > 20
    /\ SubSeq(key, 1, 3) = <<"s", "k", "-">>

\* the step in which the image of scan id is decoded
Decodes(id) == scans[id].decoded = "pending" /\ scans'[id].decoded /= "pending"

\* C15: a scan whose upload was made with a key of valid format ("sk-" first,
\* more than 20 characters) requests the AI analysis in its decode step,
\* whether a receipt was parsed, the parse failed or no QR code was found, and
\* with no other key; the text the request responds with is stored in
\* openAIResult, trimmed; a decoded payload leaves error empty, also when its
\* parse failed, and stays in qrResult.
C15_AIIndependentOfParse ==
    [][\A id \in DOMAIN scans :
          /\ Decodes(id) =>
                 /\ ValidFormat(scans[id].key) <=> (scans'[id].at = "ai" /\ isAnalyzingWithAI')
                 /\ ~ValidFormat(scans[id].key) <=> scans'[id].at = "done"
                 /\ scans'[id].decoded = "found" => (error' = "" /\ qrResult' /= Null)
          /\ (AISettles(id) /\ scans'[id].ai.kind = "response"
                  /\ scans'[id].ai.content /= <<>>) =>
                 openAIResult' = Text(<<"S", "N", Digits[id + 1]>>)]_vars

\* the payload of the scan is no receipt, the AI text is stored, no error
C15_Witness ==
    /\ Len(scans) = 1 /\ scans[1].at = "done"
    /\ ValidFormat(scans[1].key)
    /\ qrResult /= Null /\ qrResult.data = <<"h", "t", "t", "p">>
    /\ germanReceipt = Null
    /\ openAIResult = Text(<<"S", "N", "1">>)
    /\ error = ""

----------------------------------------------------------------------------
(* C16 *)

\* the characters of "Error: "
ErrorColon == <<"E", "r", "r", "o", "r", ":", " ">>

\* C16: when the request fails, with an Error or with another value, the step
\* in which it settles stores "Error: " followed by the message of the Error,
\* or by "Unknown error", in openAIResult, leaves error as it was and sets
\* isAnalyzingWithAI to false; without a client the function resolves with
\* "Error: " and the message of its own Error; the message of the catch block
\* around the call is never stored, for the call never rejects.
C16_AIFailureIsString ==
    [][/\ \A id \in DOMAIN scans :
             AISettles(id) =>
                 /\ scans'[id].ai.kind = "error" =>
                        openAIResult' = Text(ErrorColon \o scans'[id].ai.message)
                 /\ scans'[id].ai.kind = "thrown" =>
                        openAIResult' = Text(ErrorColon \o <<"Unknown error">>)
                 /\ openAIResult' /= Text(MsgAIFailed)
                 /\ error' = error
                 /\ isAnalyzingWithAI /\ ~isAnalyzingWithAI'
       /\ \A o \in AIOutcomes(1) :
             extractSerialNumberWithAI(<<>>, o) = ErrorColon \o MsgNoClient]_vars

\* no QR code was found, the request failed: its message stands in
\* openAIResult, error still holds the message of the decode step
C16_Witness ==
    /\ Len(scans) = 1 /\ scans[1].at = "done" /\ scans[1].ai.kind = "error"
    /\ openAIResult = Text(ErrorColon \o <<"Connection error.">>)
    /\ error = MsgNoQr
    /\ ~isAnalyzingWithAI

----------------------------------------------------------------------------
(* C17 *)

\* C17: while a scan has a continuation to come, isScanning is true up to its
\* decode step and isAnalyzingWithAI is true while its request is outstanding;
\* the upload button is disabled exactly when one of the two is true; so at
\* most one scan is in flight.
C17_OnePipeline ==
    /\ \A id \in DOMAIN scans :
           /\ scans[id].at \in {"reading", "loading"} => isScanning
           /\ scans[id].at = "ai" => isAnalyzingWithAI
    /\ UploadDisabled <=> (isScanning \/ isAnalyzingWithAI)
    /\ Cardinality(InFlight) <= 1

\* the first scan is over, the request of the second is outstanding and the
\* button is disabled
C17_Witness ==
    /\ Len(scans) = 2 /\ scans[1].at = "done" /\ scans[2].at = "ai"
    /\ ~isScanning /\ isAnalyzingWithAI /\ UploadDisabled

----------------------------------------------------------------------------
(* C18 *)

\* C18: once no scan has a continuation to come, isScanning and
\* isAnalyzingWithAI are false and the upload button is enabled.
C18_FlagsReleased ==
    InFlight = {} => (~isScanning /\ ~isAnalyzingWithAI /\ ~UploadDisabled)

====
